---------------------------- MODULE Spec2Model ----------------------------
(***************************************************************************)
(* react-form-guard: the validation engine (lib/validators), the update    *)
(* scheduler (lib/debounceThrottle) and the two hooks useFormValidator and *)
(* useFormSubmission (hooks/useFormValidator, the debounced/throttled      *)
(* revision), modelled as one state machine.                               *)
(*                                                                         *)
(* A React render is the action Render: it is the moment at which the      *)
(* callbacks of the hooks capture formState.values, and at which the       *)
(* effects re-create the debounced validator and the throttled submit when *)
(* the identity of formState.values has changed.                           *)
(***************************************************************************)
EXTENDS Integers, Sequences, FiniteSets, TLC

(***************************************************************************)
(* Bounds of the model.                                                    *)
(***************************************************************************)
\* user operations (setFieldValue, setFieldTouched, ...) per behaviour
MaxOps == 3
\* handleSubmit calls per behaviour of SpecSubmit
MaxSubmits == 5
\* validateSingleField / validateFormFields calls per behaviour of SpecField
MaxCalls == 2
\* user operations per behaviour of SpecLife
MaxLifeOps == 3
\* handleSubmit calls per behaviour of SpecWindow
MaxWindowSubmits == 2
\* user operations per behaviour of SpecFail
MaxFailOps == 2
\* setFieldValue calls per behaviour of SpecChange
MaxChanges == 3
\* ticks of the model's clock per behaviour
MaxTicks == 3
\* the debounce wait (inputDebounceMs) and the throttle limit
\* (submitThrottleMs), in ticks of the model's clock
DebounceWait == 1
ThrottleLimit == 2

(***************************************************************************)
(* JavaScript values.  A value is a record: k is its typeof-like kind, s   *)
(* the characters of a string (or the elements of an array), n a number.   *)
(***************************************************************************)
Str(chars) == [k |-> "string", s |-> chars, n |-> 0]
Num(i) == [k |-> "number", s |-> <<>>, n |-> i]
Arr(elems) == [k |-> "array", s |-> elems, n |-> 0]
Bool(b) == [k |-> "boolean", s |-> <<>>, n |-> IF b THEN 1 ELSE 0]
Null == [k |-> "null", s |-> <<>>, n |-> 0]
Undefined == [k |-> "undefined", s |-> <<>>, n |-> 0]
EmptyStr == Str(<<>>)

IsString(v) == v.k = "string"

\* String.prototype.trim; the white space of the model is the blank, the
\* tab and the line feed
Whitespace == {" ", "\t", "\n"}
RECURSIVE TrimLeft(_)
TrimLeft(s) == IF s # <<>> /\ Head(s) \in Whitespace THEN TrimLeft(Tail(s)) ELSE s
RECURSIVE TrimRight(_)
TrimRight(s) ==
  IF s # <<>> /\ s[Len(s)] \in Whitespace THEN TrimRight(SubSeq(s, 1, Len(s) - 1)) ELSE s
\* a trim that removes nothing
TrimNothing(s) == s
Trim(s) == TrimRight(TrimLeft(s))

\* formData[key]: undefined when the key is absent
Lookup(data, key) == IF key \in DOMAIN data THEN data[key] ELSE Undefined

\* the optional formData argument of validateField
NoFormData == [has |-> FALSE, data |-> <<>>]
FormData(data) == [has |-> TRUE, data |-> data]

(***************************************************************************)
(* Messages are sequences of text tokens, so that the {value} placeholder  *)
(* and its replacement are visible.  The empty message is <<>>.            *)
(***************************************************************************)
NoMessage == <<>>
Digits == <<"0", "1", "2", "3", "4", "5", "6", "7", "8", "9">>
RECURSIVE NumToStr(_)
NumToStr(i) ==
  IF i < 10 THEN Digits[i + 1] ELSE NumToStr(i \div 10) \o Digits[(i % 10) + 1]

\* a replacement that leaves the message as it is
KeepPlaceholder(msg, tok, by) == msg

RECURSIVE ReplaceFirst(_, _, _)
ReplaceFirst(msg, tok, by) ==
  IF msg = <<>> THEN <<>>
  ELSE IF Head(msg) = tok THEN <<by>> \o Tail(msg)
  ELSE <<Head(msg)>> \o ReplaceFirst(Tail(msg), tok, by)

(***************************************************************************)
(* Validation rules (ValidationRule).  message = NoMessage, hasValue =     *)
(* FALSE, matchField = "" and custom = "" stand for an absent property.    *)
(***************************************************************************)
Rule(type) ==
  [type |-> type, message |-> NoMessage, hasValue |-> FALSE, value |-> 0,
   matchField |-> "", custom |-> ""]
RuleV(type, val) == [Rule(type) EXCEPT !.hasValue = TRUE, !.value = val]
RuleMatch(field) == [Rule("match") EXCEPT !.matchField = field]
RuleCustom(pred, msg) == [Rule("custom") EXCEPT !.custom = pred, !.message = msg]

ValidatorTypes ==
  {"required", "email", "minLength", "maxLength", "pattern", "match",
   "custom", "number", "url", "phone"}

\* VALIDATORS and DEFAULT_MESSAGES are object literals: besides their ten own
\* keys they inherit the members of Object.prototype, for which
\* `type in VALIDATORS` is true as well.  The model has one of them.
InheritedKinds == {"isPrototypeOf"}
\* const isValidType = (type) => type in VALIDATORS
isValidType(type) == type \in ValidatorTypes \cup InheritedKinds

\* custom predicates supplied by the caller: "hasB" resolves asynchronously
\* to whether the string contains the character b
HasChar(s, c) == \E i \in DOMAIN s : s[i] = c
CustomPredicate(pred, value, formData) ==
  CASE pred = "hasB" -> IsString(value) /\ HasChar(value.s, "b")
    [] OTHER -> TRUE
AsyncPredicates == {"hasB"}

\* VALIDATORS[type](value, rule) for the built-in kinds the model uses
VALIDATORS(type, value, rule) ==
  CASE type = "required" ->
         IF IsString(value) THEN Len(Trim(value.s)) > 0
         ELSE IF value.k = "array" THEN Len(value.s) > 0
         ELSE value.k \notin {"null", "undefined"}
    [] type = "minLength" ->
         IF ~IsString(value) THEN FALSE
         ELSE Len(value.s) >= (IF rule.hasValue THEN rule.value ELSE 0)
    [] type = "maxLength" ->
         IF ~IsString(value) THEN FALSE
         ELSE rule.hasValue => Len(value.s) <= rule.value
    [] type = "match" ->
         \* the table's match entry is a pattern test; without a pattern
         \* every string passes
         IF ~IsString(value) THEN FALSE ELSE ~rule.hasValue
    [] type = "custom" ->
         IF rule.custom = "" THEN TRUE
         ELSE CustomPredicate(rule.custom, value, NoFormData)
    [] type = "isPrototypeOf" ->
         \* Object.prototype.isPrototypeOf(value): false for every argument
         \* that is not an object, as all the values of the model are
         FALSE
    [] OTHER -> TRUE

DEFAULT_MESSAGES(type) ==
  CASE type = "required" -> <<"This field is required">>
    [] type = "minLength" ->
         <<"This field must be at least ", "{value}", " characters">>
    [] type = "maxLength" ->
         <<"This field must not exceed ", "{value}", " characters">>
    [] type = "match" -> <<"This field does not match the required pattern">>
    [] type = "custom" -> <<"This field is invalid">>
    [] type \in InheritedKinds ->
         \* the inherited member itself, a function and not a string
         <<"function ", type, "() { [native code] }">>
    [] OTHER -> <<"This field format is invalid">>

MessageOr(rule, dflt) == IF rule.message # NoMessage THEN rule.message ELSE dflt

\* the digits a numeric string denotes
RECURSIVE StrToNum(_)
StrToNum(chars) ==
  IF chars = <<>> THEN 0
  ELSE LET d == CHOOSE i \in 0..9 : Digits[i + 1] = chars[Len(chars)]
       IN 10 * StrToNum(SubSeq(chars, 1, Len(chars) - 1)) + d
IsNumeric(v) ==
  IsString(v) /\ v.s # <<>> /\ \A i \in DOMAIN v.s : \E d \in DOMAIN Digits : Digits[d] = v.s[i]

\* a == b: null and undefined are equal to each other, a number is equal to
\* the string that denotes it
LooseEquals(a, b) ==
  \/ a = b
  \/ a.k \in {"null", "undefined"} /\ b.k \in {"null", "undefined"}
  \/ a.k = "number" /\ IsNumeric(b) /\ StrToNum(b.s) = a.n
  \/ b.k = "number" /\ IsNumeric(a) /\ StrToNum(a.s) = b.n

\* a === b for the primitive values of the model (strings, numbers, null,
\* undefined): the same type and the same content
StrictEquals(a, b) == a = b

\* validateField(value, rule, formData): {isValid, message}
validateField(value, rule, formData) ==
  IF rule.type = "custom" /\ rule.custom # ""
    THEN [isValid |-> CustomPredicate(rule.custom, value, formData),
          message |-> MessageOr(rule, DEFAULT_MESSAGES(rule.type))]
  ELSE IF rule.type = "match" /\ rule.matchField # "" /\ formData.has
    THEN [isValid |-> StrictEquals(value, Lookup(formData.data, rule.matchField)),
          message |-> MessageOr(rule, <<"This field must match ", rule.matchField>>)]
  ELSE IF ~isValidType(rule.type)
    THEN [isValid |-> TRUE, message |-> NoMessage]
  ELSE [isValid |-> VALIDATORS(rule.type, value, rule),
        message |->
          IF rule.hasValue
            THEN ReplaceFirst(MessageOr(rule, DEFAULT_MESSAGES(rule.type)),
                              "{value}", NumToStr(rule.value))
            ELSE MessageOr(rule, DEFAULT_MESSAGES(rule.type))]

\* a rule whose evaluation suspends until the caller's predicate settles
IsAsyncRule(rule) ==
  rule.type = "custom" /\ rule.custom \in AsyncPredicates


(***************************************************************************)
(* The form under validation (FieldConfig[]).  confirm has no declared     *)
(* default (defaultValue ?? '' gives the empty string).  hasValidators      *)
(* FALSE stands for an absent validators property.                         *)
(***************************************************************************)
Fields ==
  << [name |-> "password", hasDefault |-> TRUE, defaultValue |-> Str(<<"b">>),
      hasValidators |-> TRUE,
      validators |-> << Rule("required"),
                        RuleCustom("hasB", <<"Password needs a b">>),
                        RuleV("minLength", 2) >>],
     [name |-> "confirm", hasDefault |-> FALSE, defaultValue |-> Undefined,
      hasValidators |-> TRUE,
      validators |-> << RuleMatch("password") >>] >>

\* a second form, for the validation primitives called directly: title is
\* required, note has an empty rule list and memo has no rule list
NoteFields ==
  << [name |-> "title", hasDefault |-> FALSE, defaultValue |-> Undefined,
      hasValidators |-> TRUE, validators |-> << Rule("required") >>],
     [name |-> "note", hasDefault |-> FALSE, defaultValue |-> Undefined,
      hasValidators |-> TRUE, validators |-> << >>],
     [name |-> "memo", hasDefault |-> FALSE, defaultValue |-> Undefined,
      hasValidators |-> FALSE, validators |-> << >>] >>

NamesOf(fields) == {fields[i].name : i \in DOMAIN fields}
HasFieldIn(fields, name) == \E i \in DOMAIN fields : fields[i].name = name
\* fields.find((f) => f.name === fieldName)
FindFieldIn(fields, name) ==
  fields[CHOOSE i \in DOMAIN fields :
           /\ fields[i].name = name
           /\ \A j \in DOMAIN fields : fields[j].name = name => i <= j]

FieldNames == NamesOf(Fields)
HasField(name) == HasFieldIn(Fields, name)
FindField(name) == FindFieldIn(Fields, name)

\* the values a caller passes to setFieldValue / setFieldValues, and to a
\* direct validateSingleField call
InputValues(fieldName) ==
  IF fieldName = "password" THEN {EmptyStr, Str(<<"b">>), Str(<<"a", "b">>)}
  ELSE {EmptyStr, Str(<<"a", "b">>)}
DirectValues ==
  {EmptyStr, Str(<<"a">>), Str(<<"b">>), Str(<<"a", "b">>), Str(<<"A">>), Str(<<"1">>), Num(1)}
\* a bulk update (pre-filling)
Prefill == [f \in FieldNames |-> Str(<<"a", "b">>)]
\* a bulk update of one field only
PrefillOne == [f \in {"confirm"} |-> Str(<<"a", "b">>)]
Partials == {Prefill, PrefillOne}
ValidationModes == {"onChange", "onBlur", "onSubmit"}

FixErrorsMessage == <<"Please fix the errors in the form">>
GenericSubmitError == <<"An error occurred during submission">>
\* what the caller's submit callback may reject with
Rejections == {[isError |-> TRUE, message |-> <<"Network down">>],
               [isError |-> FALSE, message |-> NoMessage]}

(***************************************************************************)
(* Ordered rule evaluation: the loop of validateSingleField and the        *)
(* per-field loop of validateForm.  A run evaluates the rules from index i *)
(* on; it stops at the first failing rule, and it suspends ("await") at a  *)
(* rule whose predicate is asynchronous, after calling it.  evaluated is   *)
(* the list of the rules whose evaluation has started, in order.           *)
(***************************************************************************)
RunDone(i, msg, ev) == [st |-> "done", idx |-> i, message |-> msg, evaluated |-> ev]
RunAwait(i, ev) == [st |-> "await", idx |-> i, message |-> NoMessage, evaluated |-> ev]

\* a rule loop without the early return: a failing rule is noted and the
\* loop goes on
RECURSIVE RunFromKeepGoing(_, _, _, _, _)
RunFromKeepGoing(value, rules, formData, i, ev) ==
  IF i > Len(rules) THEN RunDone(i, NoMessage, ev)
  ELSE IF IsAsyncRule(rules[i]) THEN RunAwait(i, Append(ev, i))
  ELSE LET r == validateField(value, rules[i], formData)
           rest == RunFromKeepGoing(value, rules, formData, i + 1, Append(ev, i))
       IN IF r.isValid \/ rest.st = "await" THEN rest
          ELSE [rest EXCEPT !.message = r.message]

RECURSIVE RunFrom(_, _, _, _, _)
RunFrom(value, rules, formData, i, ev) ==
  IF i > Len(rules) THEN RunDone(i, NoMessage, ev)
  ELSE IF IsAsyncRule(rules[i]) THEN RunAwait(i, Append(ev, i))
  ELSE LET r == validateField(value, rules[i], formData) IN
       IF ~r.isValid THEN RunDone(i, r.message, Append(ev, i))
       ELSE RunFrom(value, rules, formData, i + 1, Append(ev, i))

\* the awaited rule at run.idx has settled
Resume(value, rules, formData, run) ==
  LET r == validateField(value, rules[run.idx], formData) IN
  IF ~r.isValid THEN RunDone(run.idx, r.message, run.evaluated)
  ELSE RunFrom(value, rules, formData, run.idx + 1, run.evaluated)

(***************************************************************************)
(* State.                                                                  *)
(***************************************************************************)
VARIABLES
  mode,        \* validationMode
  mounted,     \* the component that owns the hooks is mounted
  formState,   \* useFormValidator's state: values, errors, touched, ...
  rValues,     \* formState.values as captured by the callbacks of the last render
  valuesDirty, \* formState.values has been replaced since the last render
  debTimers,   \* pending timers of debounce instances, oldest first
  tasks,       \* validations in flight, in the order they started
  sub,         \* useFormSubmission's state: isSubmitting, submitError, isThrottled
  thr,         \* the current throttle instance: inThrottle, trailingArgs
  thrTimers,   \* pending cooldown timers of throttle instances, oldest first
  winTimers,   \* pending setIsThrottled(false) timers
  calls,       \* invocations of the submit callback that have not settled
  budget,      \* operations left to the caller (bounds the model)
  sinceInvoke, \* ticks since the throttled function last started, capped
  burst,       \* history: the current burst of setFieldValue calls
  chain,       \* history: the current chain of calls of the debounce instance
  win,         \* history: the calls and attempts of the current cooldown window
  last         \* history: what the last step did

vars ==
  <<mode, mounted, formState, rValues, valuesDirty, debTimers, tasks, sub, thr,
    thrTimers, winTimers, calls, budget, sinceInvoke, burst, chain, win, last>>

Components == {"values", "errors", "touched", "isValid", "isValidating"}
\* errors[f] || ''
ErrOf(errors, f) == IF f \in DOMAIN errors THEN errors[f] ELSE NoMessage
Changed(old, new) == {c \in Components : old[c] # new[c]}
ErrChanged(old, new) ==
  {f \in (DOMAIN old.errors) \cup (DOMAIN new.errors) \cup FieldNames :
     ErrOf(old.errors, f) # ErrOf(new.errors, f)}
\* touched[f], undefined (falsy) when the key is absent
TouchedOf(touched, f) == IF f \in DOMAIN touched THEN touched[f] ELSE FALSE
TouchedChanged(old, new) ==
  {f \in (DOMAIN old.touched) \cup (DOMAIN new.touched) :
     f \notin DOMAIN old.touched \/ f \notin DOMAIN new.touched
       \/ old.touched[f] # new.touched[f]}

\* { ...obj, [key]: val }
Put(obj, key, val) ==
  [k \in (DOMAIN obj) \cup {key} |-> IF k = key THEN val ELSE obj[k]]
\* { ...obj, ...more }
Spread(obj, more) ==
  [k \in (DOMAIN obj) \cup (DOMAIN more) |-> IF k \in DOMAIN more THEN more[k] ELSE obj[k]]
EmptyObj == [k \in {} |-> NoMessage]

RemoveAt(seq, i) == SubSeq(seq, 1, i - 1) \o SubSeq(seq, i + 1, Len(seq))

\* an initial state that ignores the declared defaults
InitialFormStateNoDefaults ==
  [values |-> [f \in FieldNames |-> EmptyStr],
   errors |-> EmptyObj,
   touched |-> [f \in FieldNames |-> FALSE],
   isValidating |-> FALSE,
   isValid |-> TRUE]

\* the state useState's initialiser and resetForm build
InitialFormState ==
  [values |-> [f \in FieldNames |->
                 IF FindField(f).hasDefault /\ FindField(f).defaultValue.k \notin {"null", "undefined"}
                   THEN FindField(f).defaultValue ELSE EmptyStr],
   errors |-> EmptyObj,
   touched |-> [f \in FieldNames |-> FALSE],
   isValidating |-> FALSE,
   isValid |-> TRUE]

NoTask ==
  [kind |-> "none", owner |-> "none", fname |-> "", fd |-> EmptyObj,
   fs |-> EmptyObj, e |-> 0, sup |-> EmptyObj, preReset |-> FALSE,
   sv |-> EmptyObj, rendered |-> TRUE, late |-> FALSE]
NoBurst == [fname |-> "", n |-> 0, value |-> EmptyStr, age |-> 0, runs |-> 0, runValue |-> EmptyStr]
\* n: the calls of the chain; fname, value: the arguments of the latest one;
\* idle: the ticks since the latest one; runs, runArgs, runIdle: the
\* invocations of the wrapped function the chain has led to, the arguments
\* of the latest one, and idle when it happened
NoChain ==
  [n |-> 0, fname |-> "", value |-> EmptyStr, idle |-> 0, runs |-> 0,
   runArgs |-> <<>>, runIdle |-> 0]
NoSub == [isSubmitting |-> FALSE, submitError |-> NoMessage, isThrottled |-> FALSE]
NoError == [isError |-> FALSE, message |-> NoMessage]
\* after a step that neither calls into the hooks nor completes anything
Idle ==
  [op |-> "idle", task |-> NoTask, changed |-> {}, errChanged |-> {},
   touchedChanged |-> {}, name |-> "", vals |-> <<>>, gap |-> 0, pre |-> NoSub, flag |-> FALSE,
   invoked |-> FALSE, error |-> NoError, fate |-> "none"]
\* op: the operation; task: the validation it completed; changed,
\* errChanged and touchedChanged: the parts of formState, the fields of
\* errors and the flags of touched it changed; name and vals: the field name and the partial values it was called
\* with;
\* gap and pre: sinceInvoke and the submission state before it; flag: its
\* outcome (an attempt started, or the validity a validate-all returned);
\* invoked: it called the submit callback; error: what the callback or a
\* predicate threw; fate: what became of a predicate's rejection
Last(op, task, old, new) ==
  [op |-> op, task |-> task, changed |-> Changed(old, new),
   errChanged |-> ErrChanged(old, new), touchedChanged |-> TouchedChanged(old, new),
   name |-> "", vals |-> <<>>, gap |-> sinceInvoke, pre |-> sub,
   flag |-> FALSE, invoked |-> FALSE, error |-> NoError, fate |-> "none"]

\* a state setter called with `new`: React drops the update once the
\* component is unmounted
SetState(old, new) == IF mounted THEN new ELSE old
NoWin == [n |-> 0, first |-> 0, latest |-> 0, open |-> FALSE, started |-> <<>>]


(***************************************************************************)
(* Validations in flight.  A task is one call of validateSingleField       *)
(* (kind "field": from the debounced validator, from setFieldTouched or    *)
(* from the caller) or one call of validateForm (kind "all": from          *)
(* validateFormFields, called by the caller or by a submission attempt).   *)
(* fd is the form data its rules read, fs the state of the rule loop of    *)
(* each field it validates.  sup and preReset are history: for the fields  *)
(* a newer validation has already written, the result of the newest one,   *)
(* and whether the form was reset after the validation was scheduled; sv,  *)
(* rendered and late: the form's values when the validation started,       *)
(* whether the component had rendered them by then, and whether the        *)
(* validation started after the component was unmounted.                   *)
(***************************************************************************)
\* a hook for which a field without rules is a required field
RulesOrRequired(field) ==
  IF Len(field.validators) > 0 THEN field.validators ELSE << Rule("required") >>

\* the rule list validateSingleField loops over: field.validators, each
\* rule in its object form
RulesOf(field) == field.validators

\* the rule loops validateSingleField(fieldName, value) starts on the form
\* data fd: none for an unknown field and for a field with no rule list
SingleFieldRuns(fields, fname, value, fd) ==
  IF ~HasFieldIn(fields, fname) \/ ~FindFieldIn(fields, fname).hasValidators
    THEN EmptyObj
    ELSE [f \in {fname} |->
            RunFrom(value, RulesOf(FindFieldIn(fields, fname)), FormData(fd), 1, <<>>)]

\* the fields validateForm validates: those with a non-empty rule list
ValidatedNamesIn(fields) ==
  {fields[i].name :
     i \in {j \in DOMAIN fields : fields[j].hasValidators /\ Len(fields[j].validators) > 0}}
\* the rule loops validateForm(values, fields) starts
FormRuns(fields, values) ==
  [f \in ValidatedNamesIn(fields) |->
     RunFrom(Lookup(values, f), FindFieldIn(fields, f).validators, FormData(values), 1, <<>>)]

ValidatedNames == ValidatedNamesIn(Fields)

\* validateSingleField(fieldName, value), called with the closure's values cv
FieldTask(owner, fname, value, cv, preReset) ==
  LET fd == Put(cv, fname, value) IN
  [kind |-> "field", owner |-> owner, fname |-> fname, fd |-> fd,
   fs |-> SingleFieldRuns(Fields, fname, value, fd),
   e |-> 0, sup |-> EmptyObj, preReset |-> preReset,
   sv |-> formState.values, rendered |-> ~valuesDirty, late |-> ~mounted]

\* validateForm(values, fields), called with the closure's values snap
PassTask(owner, snap, e) ==
  [kind |-> "all", owner |-> owner, fname |-> "", fd |-> snap,
   fs |-> FormRuns(Fields, snap),
   e |-> e, sup |-> EmptyObj, preReset |-> FALSE,
   sv |-> formState.values, rendered |-> ~valuesDirty, late |-> ~mounted]

\* the message validateSingleField resolves to
FieldMessage(t) == IF t.fname \in DOMAIN t.fs THEN t.fs[t.fname].message ELSE NoMessage
\* the error map validateForm resolves to: only the failing fields
PassErrors(t) ==
  [f \in {g \in DOMAIN t.fs : t.fs[g].message # NoMessage} |-> t.fs[f].message]

\* a pass that reports every form valid
PassValidAlways(t) == TRUE

\* const isValid = Object.keys(errors).length === 0
PassValid(t) == DOMAIN PassErrors(t) = {}

Ready(t) == \A f \in DOMAIN t.fs : t.fs[f].st = "done"
\* a validation whose promise chain has only microtasks left: it completes
\* before any timer, event or render
Urgent == \E i \in DOMAIN tasks : Ready(tasks[i])

Writes(t) ==
  IF t.owner = "direct" THEN {}
  ELSE IF t.kind = "all" THEN FieldNames ELSE {t.fname}
\* what task t writes to errors for field f
Written(t, f) == IF t.kind = "all" THEN ErrOf(PassErrors(t), f) ELSE FieldMessage(t)
\* tasks after task i has completed: it goes, and the tasks started before
\* it learn the result of the newest validation written for their fields
AfterCompletion(i) ==
  LET t == tasks[i]
      newest == [f \in Writes(t) |->
                   IF f \in DOMAIN t.sup THEN t.sup[f] ELSE Written(t, f)]
      marked == [j \in DOMAIN tasks |->
                   IF j < i
                     THEN [tasks[j] EXCEPT !.sup =
                             Spread(@, [f \in Writes(t) \cap Writes(tasks[j]) |-> newest[f]])]
                     ELSE tasks[j]]
  IN RemoveAt(marked, i)

(***************************************************************************)
(* The state updaters of useFormValidator.                                 *)
(***************************************************************************)

\* a validity that ignores the errors
AllClearAlways(errors) == TRUE

\* Object.values(updatedErrors).every((e) => !e)
AllClear(errors) == \A k \in DOMAIN errors : errors[k] = NoMessage

\* an updater that marks the field touched whenever its validation failed
MergeChangeMarkOnError(prev, fname, error) ==
  LET updatedErrors == Put(prev.errors, fname, error) IN
  [prev EXCEPT !.errors = updatedErrors,
               !.touched = IF error # NoMessage THEN Put(prev.touched, fname, TRUE) ELSE @,
               !.isValid = AllClear(updatedErrors)]

\* the updater of the debounced validator
MergeChange(prev, fname, error) ==
  LET updatedErrors == Put(prev.errors, fname, error)
      currentVal == Lookup(prev.values, fname)
      mark ==
        /\ error # NoMessage
        /\ IF IsString(currentVal) THEN Len(Trim(currentVal.s)) > 0
           ELSE currentVal.k \notin {"undefined", "null"}
  IN [prev EXCEPT !.errors = updatedErrors,
                  !.touched = IF mark THEN Put(prev.touched, fname, TRUE) ELSE @,
                  !.isValid = AllClear(updatedErrors)]

\* an updater that stores the message and leaves isValid as it is
MergeBlurErrorsOnly(prev, fname, error) ==
  [prev EXCEPT !.errors = Put(prev.errors, fname, error)]

\* the updater of setFieldTouched's validation
MergeBlur(prev, fname, error) ==
  LET updatedErrors == Put(prev.errors, fname, error) IN
  [prev EXCEPT !.errors = updatedErrors, !.isValid = AllClear(updatedErrors)]

\* an updater that merges the new errors into the old ones
MergePassKeepOld(prev, errors, isValid) ==
  [prev EXCEPT !.errors = Spread(@, errors), !.isValid = isValid, !.isValidating = FALSE]

\* the updater at the end of validateFormFields
MergePass(prev, errors, isValid) ==
  [prev EXCEPT !.errors = errors, !.isValid = isValid, !.isValidating = FALSE]

(***************************************************************************)
(* Initial states.                                                         *)
(***************************************************************************)
InitWith(m, values, ops, ticks) ==
  /\ mode = m
  /\ mounted = TRUE
  /\ formState = [InitialFormState EXCEPT !.values = values]
  /\ rValues = values
  /\ valuesDirty = FALSE
  /\ debTimers = <<>>
  /\ tasks = <<>>
  /\ sub = NoSub
  /\ thr = [inThrottle |-> FALSE, trailingArgs |-> 0]
  /\ thrTimers = <<>>
  /\ winTimers = <<>>
  /\ calls = <<>>
  /\ budget = [ops |-> ops, subs |-> 0, ticks |-> ticks]
  /\ sinceInvoke = ThrottleLimit
  /\ burst = NoBurst
  /\ chain = NoChain
  /\ win = NoWin
  /\ last = Idle

\* a form instance freshly mounted, in any validation mode
Init == \E m \in ValidationModes : InitWith(m, InitialFormState.values, MaxOps, MaxTicks)

(***************************************************************************)
(* The caller's operations on useFormValidator.                            *)
(***************************************************************************)
Spend == mounted /\ budget.ops > 0 /\ ~Urgent
Spent == [budget EXCEPT !.ops = @ - 1]

\* a debounce that starts a timer without clearing the pending one
DebouncedCallNoClear(fname, fvalue) ==
  Append(debTimers,
         [cur |-> TRUE, fname |-> fname, fvalue |-> fvalue, cv |-> rValues,
          left |-> DebounceWait, preReset |-> FALSE])

\* debounce's returned function, called on the current instance
DebouncedCall(fname, fvalue) ==
  Append(SelectSeq(debTimers, LAMBDA t : ~t.cur),
         [cur |-> TRUE, fname |-> fname, fvalue |-> fvalue, cv |-> rValues,
          left |-> DebounceWait, preReset |-> FALSE])

\* a call belongs to the chain of the previous call when it arrives before
\* the wait has elapsed since that call; the clock is coarse, and a call
\* made in the tick in which the timer falls due, before the timer's
\* callback has run, counts as arriving before
ChainCall(fname, value) ==
  IF chain.n > 0 /\ (chain.idle < DebounceWait \/ chain.runs = 0)
    THEN [chain EXCEPT !.n = @ + 1, !.fname = fname, !.value = value, !.idle = 0]
    ELSE [NoChain EXCEPT !.n = 1, !.fname = fname, !.value = value]

BurstCall(fname, value) ==
  IF burst.n > 0 /\ burst.fname = fname /\ burst.age < DebounceWait
    THEN [burst EXCEPT !.n = @ + 1, !.value = value]
  ELSE IF debTimers = <<>> /\ tasks = <<>>
    THEN [NoBurst EXCEPT !.fname = fname, !.n = 1, !.value = value]
  ELSE NoBurst

\* a hook that validates on every event, whatever the mode
ValidatesInAnyMode(m) == TRUE

\* validationMode === 'onChange'
ValidatesOnChange(m) == m = "onChange"
\* validationMode === 'onBlur'
ValidatesOnBlur(m) == m = "onBlur"

setFieldValue(fieldName, value) ==
  /\ Spend
  /\ LET new == [formState EXCEPT !.values = Put(@, fieldName, value)] IN
     /\ formState' = new
     /\ last' = [Last("setFieldValue", NoTask, formState, new) EXCEPT !.name = fieldName]
  /\ valuesDirty' = TRUE
  /\ IF ValidatesOnChange(mode)
       THEN /\ debTimers' = DebouncedCall(fieldName, value)
            /\ burst' = BurstCall(fieldName, value)
            /\ chain' = ChainCall(fieldName, value)
       ELSE UNCHANGED <<debTimers, burst, chain>>
  /\ budget' = Spent
  /\ UNCHANGED <<mode, mounted, rValues, tasks, sub, thr, thrTimers, winTimers, calls, sinceInvoke, win>>

\* the names setFieldTouched is called with: the configured fields and a
\* name that no field carries
TouchNames == FieldNames \cup {"nickname"}

setFieldTouched(fieldName) ==
  /\ Spend
  /\ LET new == [formState EXCEPT !.touched = Put(@, fieldName, TRUE)] IN
     /\ formState' = new
     /\ last' = [Last("setFieldTouched", NoTask, formState, new) EXCEPT !.name = fieldName]
  /\ IF ValidatesOnBlur(mode)
       THEN tasks' = Append(tasks, FieldTask("blur", fieldName, Lookup(rValues, fieldName),
                                             rValues, FALSE))
       ELSE UNCHANGED tasks
  /\ budget' = Spent
  /\ UNCHANGED <<mode, mounted, rValues, valuesDirty, debTimers, sub, thr, thrTimers, winTimers,
                 calls, sinceInvoke, burst, chain, win>>

validateFormFields ==
  /\ Spend
  /\ LET new == [formState EXCEPT !.isValidating = TRUE] IN
     /\ formState' = new
     /\ last' = Last("validateFormFields", NoTask, formState, new)
  /\ tasks' = Append(tasks, PassTask("user", rValues, 0))
  /\ budget' = Spent
  /\ UNCHANGED <<mode, mounted, rValues, valuesDirty, debTimers, sub, thr, thrTimers, winTimers,
                 calls, sinceInvoke, burst, chain, win>>

validateSingleField(fieldName, value) ==
  /\ Spend
  /\ tasks' = Append(tasks, FieldTask("direct", fieldName, value, rValues, FALSE))
  /\ last' = Last("validateSingleField", NoTask, formState, formState)
  /\ budget' = Spent
  /\ UNCHANGED <<mode, mounted, formState, rValues, valuesDirty, debTimers, sub, thr, thrTimers,
                 winTimers, calls, sinceInvoke, burst, chain, win>>

resetForm ==
  /\ Spend
  /\ formState' = InitialFormState
  /\ last' = Last("resetForm", NoTask, formState, InitialFormState)
  /\ valuesDirty' = TRUE
  /\ debTimers' = [i \in DOMAIN debTimers |-> [debTimers[i] EXCEPT !.preReset = TRUE]]
  /\ tasks' = [i \in DOMAIN tasks |-> [tasks[i] EXCEPT !.preReset = TRUE]]
  /\ budget' = Spent
  /\ UNCHANGED <<mode, mounted, rValues, sub, thr, thrTimers, winTimers, calls, sinceInvoke, burst, chain, win>>

\* a bulk update that also clears the errors
MergeValuesAndClear(prev, values) ==
  [prev EXCEPT !.values = Spread(@, values), !.errors = <<>>, !.isValid = TRUE]

\* the updater of setFieldValues
MergeValues(prev, values) == [prev EXCEPT !.values = Spread(@, values)]

setFieldValues(values) ==
  /\ Spend
  /\ LET new == MergeValues(formState, values) IN
     /\ formState' = new
     /\ last' = [Last("setFieldValues", NoTask, formState, new) EXCEPT !.vals = values]
  /\ valuesDirty' = TRUE
  /\ budget' = Spent
  /\ UNCHANGED <<mode, mounted, rValues, debTimers, tasks, sub, thr, thrTimers, winTimers, calls,
                 sinceInvoke, burst, chain, win>>


(***************************************************************************)
(* Render: the callbacks capture the new formState.values; the effects of  *)
(* both hooks run because validateSingleField / validateFormFields have    *)
(* changed, and create a fresh debounce and a fresh throttle instance.     *)
(* Neither effect has a cleanup: the timers of the old instances stay.     *)
(***************************************************************************)
Render ==
  /\ mounted
  /\ valuesDirty
  /\ ~Urgent
  /\ rValues' = formState.values
  /\ valuesDirty' = FALSE
  /\ debTimers' = [i \in DOMAIN debTimers |-> [debTimers[i] EXCEPT !.cur = FALSE]]
  /\ thrTimers' = [i \in DOMAIN thrTimers |->
                     IF thrTimers[i].cur
                       THEN [thrTimers[i] EXCEPT !.cur = FALSE,
                                                 !.trailing = thr.trailingArgs]
                       ELSE thrTimers[i]]
  /\ thr' = [inThrottle |-> FALSE, trailingArgs |-> 0]
  /\ win' = NoWin
  /\ chain' = NoChain
  /\ last' = Idle
  /\ UNCHANGED <<mode, mounted, formState, tasks, sub, winTimers, calls, budget, sinceInvoke, burst>>

(***************************************************************************)
(* Time.  A tick passes only when no timer is due.                         *)
(***************************************************************************)
Min(a, b) == IF a < b THEN a ELSE b
NoneDue ==
  /\ \A i \in DOMAIN debTimers : debTimers[i].left > 0
  /\ \A i \in DOMAIN thrTimers : thrTimers[i].left > 0
  /\ \A i \in DOMAIN winTimers : winTimers[i] > 0

Tick ==
  /\ ~Urgent
  /\ NoneDue
  /\ budget.ticks > 0
  /\ budget' = [budget EXCEPT !.ticks = @ - 1]
  /\ \/ debTimers # <<>>
     \/ thrTimers # <<>>
     \/ winTimers # <<>>
     \/ sinceInvoke < ThrottleLimit
     \/ (burst.n > 0 /\ burst.age < DebounceWait)
  /\ debTimers' = [i \in DOMAIN debTimers |-> [debTimers[i] EXCEPT !.left = @ - 1]]
  /\ thrTimers' = [i \in DOMAIN thrTimers |-> [thrTimers[i] EXCEPT !.left = @ - 1]]
  /\ winTimers' = [i \in DOMAIN winTimers |-> winTimers[i] - 1]
  /\ sinceInvoke' = Min(sinceInvoke + 1, ThrottleLimit)
  /\ burst' = IF burst.n > 0 THEN [burst EXCEPT !.age = Min(@ + 1, DebounceWait)] ELSE burst
  /\ chain' = IF chain.n > 0 THEN [chain EXCEPT !.idle = Min(@ + 1, DebounceWait)] ELSE chain
  /\ last' = Idle
  /\ UNCHANGED <<mode, mounted, formState, rValues, valuesDirty, tasks, sub, thr, calls, win>>

(***************************************************************************)
(* debounce: the timer's callback calls fn(...args), the debounced         *)
(* validator, which starts validateSingleField.                            *)
(***************************************************************************)
DebounceFire ==
  /\ ~Urgent
  /\ debTimers # <<>>
  /\ Head(debTimers).left = 0
  /\ LET t == Head(debTimers) IN
     /\ tasks' = Append(tasks, FieldTask("change", t.fname, t.fvalue, t.cv, t.preReset))
     /\ burst' = IF burst.n > 0 /\ burst.fname = t.fname
                   THEN [burst EXCEPT !.runs = @ + 1, !.runValue = t.fvalue]
                   ELSE burst
     /\ chain' = IF t.cur
                   THEN [chain EXCEPT !.runs = @ + 1, !.runArgs = <<t.fname, t.fvalue>>,
                                      !.runIdle = chain.idle]
                   ELSE chain
  /\ debTimers' = Tail(debTimers)
  /\ last' = Idle
  /\ UNCHANGED <<mode, mounted, formState, rValues, valuesDirty, sub, thr, thrTimers, winTimers,
                 calls, budget, sinceInvoke, win>>

(***************************************************************************)
(* Validations in flight: an asynchronous predicate settles; a validation  *)
(* whose rules are all evaluated completes and its caller continues.       *)
(***************************************************************************)
\* rules that read the form's values as they are when they run
RuleDataLive(t) == formState.values

\* the values the rules of a validation read: the object the validation was
\* called with, which no later state update changes
RuleData(t) == t.fd

PredicateSettles(i, f) ==
  /\ ~Urgent
  /\ tasks[i].fs[f].st = "await"
  /\ tasks' = [tasks EXCEPT ![i].fs[f] =
                 Resume(Lookup(RuleData(tasks[i]), f), FindField(f).validators,
                        FormData(RuleData(tasks[i])), @)]
  /\ last' = Idle
  /\ UNCHANGED <<mode, mounted, formState, rValues, valuesDirty, debTimers, sub, thr, thrTimers,
                 winTimers, calls, budget, sinceInvoke, burst, chain, win>>

\* validateSingleField has resolved: the debounced validator or
\* setFieldTouched merges the message; a direct caller just receives it
FieldValidationDone(i) ==
  /\ tasks[i].kind = "field"
  /\ Ready(tasks[i])
  /\ LET t == tasks[i]
         new == SetState(formState,
                  CASE t.owner = "change" -> MergeChange(formState, t.fname, FieldMessage(t))
                    [] t.owner = "blur" -> MergeBlur(formState, t.fname, FieldMessage(t))
                    [] OTHER -> formState)
     IN /\ formState' = new
        /\ last' = Last("FieldValidationDone", t, formState, new)
  /\ tasks' = AfterCompletion(i)
  /\ UNCHANGED <<mode, mounted, rValues, valuesDirty, debTimers, sub, thr, thrTimers, winTimers,
                 calls, budget, sinceInvoke, burst, chain, win>>

\* validateForm has resolved inside validateFormFields, called by the caller
ValidateAllDone(i) ==
  /\ tasks[i].kind = "all"
  /\ tasks[i].owner = "user"
  /\ Ready(tasks[i])
  /\ LET t == tasks[i]
         new == SetState(formState, MergePass(formState, PassErrors(t), PassValid(t)))
     IN /\ formState' = new
        /\ last' = [Last("ValidateAllDone", t, formState, new) EXCEPT !.flag = PassValid(t)]
  /\ tasks' = AfterCompletion(i)
  /\ UNCHANGED <<mode, mounted, rValues, valuesDirty, debTimers, sub, thr, thrTimers, winTimers,
                 calls, budget, sinceInvoke, burst, chain, win>>

(***************************************************************************)
(* useFormSubmission.  An attempt is one run of the throttled function:    *)
(* preventDefault, setIsSubmitting(true), setSubmitError(null), then       *)
(* validateForm() of the closure.                                          *)
(***************************************************************************)
AttemptSub == SetState(sub, [sub EXCEPT !.isSubmitting = TRUE, !.submitError = NoMessage])
AttemptForm == SetState(formState, [formState EXCEPT !.isValidating = TRUE])
AttemptTasks(e, cv) == Append(tasks, PassTask("submit", cv, e))

\* a throttle that keeps the arguments of the first deferred call
ThrottleDeferKeepFirst(t, args) ==
  IF t.trailingArgs = 0 THEN [t EXCEPT !.trailingArgs = args] ELSE t

\* throttle's else branch: trailingArgs = args
ThrottleDefer(t, args) == [t EXCEPT !.trailingArgs = args]

\* handleSubmit(e): the throttle wrapper either invokes now and starts its
\* cooldown timer, or remembers the arguments for the trailing call
handleSubmit ==
  /\ Spend
  /\ LET e == budget.subs + 1 IN
     IF ~thr.inThrottle
       THEN /\ sub' = AttemptSub
            /\ formState' = AttemptForm
            /\ tasks' = AttemptTasks(e, rValues)
            /\ thr' = [thr EXCEPT !.inThrottle = TRUE]
            /\ thrTimers' = Append(thrTimers, [cur |-> TRUE, left |-> ThrottleLimit,
                                               trailing |-> 0, cv |-> rValues])
            /\ sinceInvoke' = 0
            /\ win' = [n |-> 1, first |-> e, latest |-> e, open |-> TRUE, started |-> <<e>>]
            /\ last' = [Last("handleSubmit", NoTask, formState, AttemptForm) EXCEPT
                          !.flag = TRUE]
       ELSE /\ thr' = ThrottleDefer(thr, e)
            /\ win' = [win EXCEPT !.n = @ + 1, !.latest = e]
            /\ last' = Last("handleSubmit", NoTask, formState, formState)
            /\ UNCHANGED <<sub, formState, tasks, thrTimers, sinceInvoke>>
  /\ budget' = [budget EXCEPT !.ops = @ - 1, !.subs = @ + 1]
  /\ UNCHANGED <<mode, mounted, rValues, valuesDirty, debTimers, winTimers, calls, burst, chain>>

\* the cooldown timer of a throttle instance: inThrottle = false, then the
\* trailing call if arguments were remembered
ThrottleFire ==
  /\ ~Urgent
  /\ thrTimers # <<>>
  /\ Head(thrTimers).left = 0
  /\ LET t == Head(thrTimers)
         trailing == IF t.cur THEN thr.trailingArgs ELSE t.trailing
     IN /\ thr' = IF t.cur THEN [inThrottle |-> FALSE, trailingArgs |-> 0] ELSE thr
        /\ win' = IF t.cur
                    THEN [win EXCEPT !.open = FALSE,
                                     !.started = IF trailing # 0 THEN Append(@, trailing) ELSE @]
                    ELSE win
        /\ IF trailing # 0
             THEN /\ sub' = AttemptSub
                  /\ formState' = AttemptForm
                  /\ tasks' = AttemptTasks(trailing, t.cv)
                  /\ sinceInvoke' = 0
                  /\ last' = [Last("ThrottleFire", NoTask, formState, AttemptForm) EXCEPT
                                !.flag = TRUE]
             ELSE /\ last' = Last("ThrottleFire", NoTask, formState, formState)
                  /\ UNCHANGED <<sub, formState, tasks, sinceInvoke>>
  /\ thrTimers' = Tail(thrTimers)
  /\ UNCHANGED <<mode, mounted, rValues, valuesDirty, debTimers, winTimers, calls, budget, burst, chain>>

\* validateForm() has resolved inside an attempt: invalid ends the attempt
\* with the generic error; valid opens the isThrottled window and calls the
\* caller's onSubmit with the closure's values
SubmitValidationDone(i) ==
  /\ tasks[i].kind = "all"
  /\ tasks[i].owner = "submit"
  /\ Ready(tasks[i])
  /\ LET t == tasks[i]
         new == SetState(formState, MergePass(formState, PassErrors(t), PassValid(t)))
         isValid == PassValid(t)
     IN /\ formState' = new
        /\ last' = [Last("SubmitValidationDone", t, formState, new) EXCEPT
                      !.flag = isValid, !.invoked = isValid]
        /\ IF isValid
             THEN /\ sub' = SetState(sub, [sub EXCEPT !.isThrottled = TRUE])
                  /\ winTimers' = Append(winTimers, ThrottleLimit)
                  /\ calls' = Append(calls, [values |-> t.fd, e |-> t.e])
             ELSE /\ sub' = SetState(sub, [sub EXCEPT !.submitError = FixErrorsMessage,
                                                       !.isSubmitting = FALSE])
                  /\ UNCHANGED <<winTimers, calls>>
  /\ tasks' = AfterCompletion(i)
  /\ UNCHANGED <<mode, mounted, rValues, valuesDirty, debTimers, thr, thrTimers, budget,
                 sinceInvoke, burst, chain, win>>

\* a window timer that leaves isThrottled as it is
WindowStuck(s) == s

\* () => setIsThrottled(false)
WindowClosed(s) == [s EXCEPT !.isThrottled = FALSE]

\* setTimeout(() => setIsThrottled(false), submitThrottleMs)
WindowFire ==
  /\ ~Urgent
  /\ winTimers # <<>>
  /\ Head(winTimers) = 0
  /\ sub' = SetState(sub, WindowClosed(sub))
  /\ winTimers' = Tail(winTimers)
  /\ last' = Idle
  /\ UNCHANGED <<mode, mounted, formState, rValues, valuesDirty, debTimers, tasks, thr, thrTimers,
                 calls, budget, sinceInvoke, burst, chain, win>>

\* await onSubmit(currentValues) resolves
SubmitResolves(i) ==
  /\ ~Urgent
  /\ sub' = SetState(sub, [sub EXCEPT !.isSubmitting = FALSE])
  /\ calls' = RemoveAt(calls, i)
  /\ last' = Last("SubmitResolves", NoTask, formState, formState)
  /\ UNCHANGED <<mode, mounted, formState, rValues, valuesDirty, debTimers, tasks, thr, thrTimers,
                 winTimers, budget, sinceInvoke, burst, chain, win>>

\* a catch block that stores whatever message the thrown value carries
RejectionMessageRaw(error) == error.message

\* error instanceof Error ? error.message : 'An error occurred during submission'
RejectionMessage(error) == IF error.isError THEN error.message ELSE GenericSubmitError

\* await onSubmit(currentValues) throws or rejects: the catch block
SubmitRejects(i, error) ==
  /\ ~Urgent
  /\ sub' = SetState(sub, [sub EXCEPT !.submitError = RejectionMessage(error),
                                      !.isSubmitting = FALSE])
  /\ calls' = RemoveAt(calls, i)
  /\ last' = [Last("SubmitRejects", NoTask, formState, formState) EXCEPT !.error = error]
  /\ UNCHANGED <<mode, mounted, formState, rValues, valuesDirty, debTimers, tasks, thr, thrTimers,
                 winTimers, budget, sinceInvoke, burst, chain, win>>

\* DynamicForm: Object.values(formState.errors).some(Boolean)
hasErrors == \E f \in DOMAIN formState.errors : formState.errors[f] # NoMessage

\* DynamicForm's effect on [formState.errors, submitError]: it runs after
\* every render in which one of the two changed and calls
\* setSubmitError(null) when no field has an error and submitError is set.
\* While that condition holds the effect has not yet run for the rendered
\* state, since its run would have cleared submitError.
clearSubmitErrorEffect ==
  /\ ~Urgent
  /\ mounted
  /\ ~hasErrors
  /\ sub.submitError # NoMessage
  /\ sub' = SetState(sub, [sub EXCEPT !.submitError = NoMessage])
  /\ last' = Last("clearSubmitErrorEffect", NoTask, formState, formState)
  /\ UNCHANGED <<mode, mounted, formState, rValues, valuesDirty, debTimers, tasks, thr, thrTimers,
                 winTimers, calls, budget, sinceInvoke, burst, chain, win>>

(***************************************************************************)
(* A custom predicate throws, or the promise it returned rejects.  The     *)
(* rejection passes through validateField and through validateSingleField  *)
(* or validateForm (Promise.all rejects at once), none of which has a      *)
(* catch block, to the function that awaited them.                         *)
(***************************************************************************)
\* what becomes of the rejection, by the caller of the validation:
\* the debounced validator has no catch block and debounce drops the
\* promise it returns, so that nothing can handle the rejection;
\* setFieldTouched, validateFormFields and validateSingleField have no
\* catch block either and return a promise that rejects; the body of the
\* throttled submit awaits validateForm() inside its try block
RejectionFate(owner) ==
  CASE owner = "change" -> "unhandled"
    [] owner = "submit" -> "caught"
    [] OTHER -> "returned"

PredicateRejects(i, f, error) ==
  /\ ~Urgent
  /\ tasks[i].fs[f].st = "await"
  /\ LET t == tasks[i] IN
     /\ sub' = IF t.owner = "submit"
                 THEN SetState(sub, [sub EXCEPT !.submitError = RejectionMessage(error),
                                                !.isSubmitting = FALSE])
                 ELSE sub
     /\ last' = [Last("PredicateRejects", t, formState, formState) EXCEPT
                   !.name = f, !.error = error, !.fate = RejectionFate(t.owner)]
  /\ tasks' = RemoveAt(tasks, i)
  /\ UNCHANGED <<mode, mounted, formState, rValues, valuesDirty, debTimers, thr, thrTimers,
                 winTimers, calls, budget, sinceInvoke, burst, chain, win>>

(***************************************************************************)
(* The component unmounts.  No effect of the two hooks returns a cleanup   *)
(* function: the pending timers and the validations in flight stay.        *)
(***************************************************************************)
Unmount ==
  /\ mounted
  /\ ~Urgent
  /\ mounted' = FALSE
  /\ last' = Idle
  /\ UNCHANGED <<mode, formState, rValues, valuesDirty, debTimers, tasks, sub, thr, thrTimers,
                 winTimers, calls, budget, sinceInvoke, burst, chain, win>>

(***************************************************************************)
(* Specifications.                                                         *)
(***************************************************************************)
Next ==
  \/ \E f \in FieldNames : \E v \in InputValues(f) : setFieldValue(f, v)
  \/ \E f \in TouchNames : setFieldTouched(f)
  \/ validateFormFields
  \/ resetForm
  \/ \E p \in Partials : setFieldValues(p)
  \/ Render
  \/ Tick
  \/ DebounceFire
  \/ \E i \in DOMAIN tasks : \E f \in DOMAIN tasks[i].fs : PredicateSettles(i, f)
  \/ \E i \in DOMAIN tasks : FieldValidationDone(i)
  \/ \E i \in DOMAIN tasks : ValidateAllDone(i)

Spec == Init /\ [][Next]_vars


(***************************************************************************)
(* SpecSubmit: a mounted form whose values are any the caller may have     *)
(* entered (and rendered), on which only handleSubmit is called.           *)
(***************************************************************************)
ValueStates == {vs \in [FieldNames -> DirectValues] : \A f \in FieldNames : vs[f] \in InputValues(f)}

InitSubmit == \E vs \in ValueStates : InitWith("onBlur", vs, MaxSubmits, MaxTicks)

NextSubmit ==
  \/ handleSubmit
  \/ Tick
  \/ ThrottleFire
  \/ WindowFire
  \/ \E i \in DOMAIN tasks : \E f \in DOMAIN tasks[i].fs : PredicateSettles(i, f)
  \/ \E i \in DOMAIN tasks : SubmitValidationDone(i)
  \/ \E i \in DOMAIN calls : SubmitResolves(i)
  \/ \E i \in DOMAIN calls : \E r \in Rejections : SubmitRejects(i, r)

SpecSubmit == InitSubmit /\ [][NextSubmit]_vars

(***************************************************************************)
(* SpecDynamic: the submission flow inside DynamicForm, which adds its      *)
(* effect on the submit error to the two hooks.                            *)
(***************************************************************************)
NextDynamic ==
  \/ NextSubmit
  \/ clearSubmitErrorEffect

SpecDynamic == InitSubmit /\ [][NextDynamic]_vars

(***************************************************************************)
(* SpecField: the validation primitives called directly, on any values.    *)
(***************************************************************************)
InitField == \E vs \in [FieldNames -> DirectValues] : InitWith("onSubmit", vs, MaxCalls, 0)

NextField ==
  \/ \E f \in FieldNames : \E v \in DirectValues : validateSingleField(f, v)
  \/ validateFormFields
  \/ \E i \in DOMAIN tasks : \E f \in DOMAIN tasks[i].fs : PredicateSettles(i, f)
  \/ \E i \in DOMAIN tasks : FieldValidationDone(i)
  \/ \E i \in DOMAIN tasks : ValidateAllDone(i)

SpecField == InitField /\ [][NextField]_vars

(***************************************************************************)
(* SpecWindow: SpecSubmit with a clock that always has ticks left (a       *)
(* submission keeps the clock busy for at most two throttle limits), and   *)
(* in which time passes, due timers fire and a validation whose rules are  *)
(* all evaluated completes.  The submit callback may never settle.         *)
(***************************************************************************)
WindowTicks == 2 * MaxWindowSubmits * ThrottleLimit
InitWindow == \E vs \in ValueStates : InitWith("onBlur", vs, MaxWindowSubmits, WindowTicks)

SpecWindow ==
  /\ InitWindow
  /\ [][NextSubmit]_vars
  /\ WF_vars(Tick)
  /\ WF_vars(ThrottleFire)
  /\ WF_vars(WindowFire)
  /\ WF_vars(\E i \in DOMAIN tasks : SubmitValidationDone(i))

(***************************************************************************)
(* SpecLife: a mounted on-change form whose password is valid, on which    *)
(* the user edits the confirmation and submits, which re-renders after     *)
(* value changes, and which may unmount.                                   *)
(***************************************************************************)
LifeField == "confirm"
InitLife ==
  \E vs \in {w \in ValueStates : w["password"] = Str(<<"a", "b">>)} :
    InitWith("onChange", vs, MaxLifeOps, MaxTicks)

NextLife ==
  \/ \E v \in InputValues(LifeField) : setFieldValue(LifeField, v)
  \/ handleSubmit
  \/ Render
  \/ Unmount
  \/ Tick
  \/ DebounceFire
  \/ ThrottleFire
  \/ WindowFire
  \/ \E i \in DOMAIN tasks : \E f \in DOMAIN tasks[i].fs : PredicateSettles(i, f)
  \/ \E i \in DOMAIN tasks : FieldValidationDone(i)
  \/ \E i \in DOMAIN tasks : SubmitValidationDone(i)
  \/ \E i \in DOMAIN calls : SubmitResolves(i)

SpecLife == InitLife /\ [][NextLife]_vars

(***************************************************************************)
(* SpecChange: a mounted form in on-change mode whose two fields are       *)
(* edited through setFieldValue only.                                      *)
(***************************************************************************)
InitChange == InitWith("onChange", InitialFormState.values, MaxChanges, MaxTicks)

NextChange ==
  \/ \E f \in FieldNames : \E v \in InputValues(f) : setFieldValue(f, v)
  \/ Render
  \/ Tick
  \/ DebounceFire
  \/ \E i \in DOMAIN tasks : \E f \in DOMAIN tasks[i].fs : PredicateSettles(i, f)
  \/ \E i \in DOMAIN tasks : FieldValidationDone(i)

SpecChange == InitChange /\ [][NextChange]_vars

(***************************************************************************)
(* SpecFail: a mounted form, in any validation mode, whose password is     *)
(* edited, blurred and validated, and whose asynchronous predicate may     *)
(* fail instead of answering.                                              *)
(***************************************************************************)
FailField == "password"
InitFail ==
  \E m \in ValidationModes : InitWith(m, InitialFormState.values, MaxFailOps, MaxTicks)

NextFail ==
  \/ \E v \in InputValues(FailField) : setFieldValue(FailField, v)
  \/ setFieldTouched(FailField)
  \/ validateFormFields
  \/ Render
  \/ Tick
  \/ DebounceFire
  \/ \E i \in DOMAIN tasks : \E f \in DOMAIN tasks[i].fs : PredicateSettles(i, f)
  \/ \E i \in DOMAIN tasks : \E f \in DOMAIN tasks[i].fs : \E r \in Rejections :
       PredicateRejects(i, f, r)
  \/ \E i \in DOMAIN tasks : FieldValidationDone(i)
  \/ \E i \in DOMAIN tasks : ValidateAllDone(i)

SpecFail == InitFail /\ [][NextFail]_vars

(***************************************************************************)
(* SpecRule: validateField, the exported rule evaluator, called directly   *)
(* on any value, rule and sibling values; validateSingleField and          *)
(* validateForm called on a form some of whose fields have no rules.       *)
(***************************************************************************)
Short == Str(<<"s", "h", "o", "r", "t">>)
LongEnough == Str(<<"l", "o", "n", "g", "e", "n", "o", "u", "g", "h", "1">>)
RuleValues ==
  {EmptyStr, Str(<<"a">>), Str(<<"A">>), Num(1), Undefined, Null, Str(<<"a", "b">>), Short,
   LongEnough}
RuleSet ==
  {RuleMatch("password"), RuleMatch("ghost"), Rule("required"),
   RuleV("minLength", 2), RuleV("minLength", 8),
   Rule("zipcode"), [Rule("zipcode") EXCEPT !.message = <<"Bad zip code">>],
   RuleV("zipcode", 5),
   Rule("isPrototypeOf"), [Rule("isPrototypeOf") EXCEPT !.message = <<"Bad value">>]}
\* the values the required rule is called with
EmptinessValues ==
  {Null, Undefined, EmptyStr, Str(<<" ">>), Str(<<" ", "\t", "\n">>), Str(<<" ", "a", " ">>),
   Str(<<"a">>), Arr(<<>>), Arr(<<EmptyStr>>), Bool(FALSE), Bool(TRUE), Num(0), Num(1)}
\* the formData argument: absent, empty, or holding a password
FormDatas ==
  {NoFormData, FormData(EmptyObj)}
    \cup {FormData([f \in {"password"} |-> v]) : v \in RuleValues}

Evaluation(value, rule, formData) ==
  [op |-> "validateField", value |-> value, rule |-> rule, formData |-> formData,
   result |-> validateField(value, rule, formData)]

validateFieldCall(value, rule, formData) ==
  /\ last' = Evaluation(value, rule, formData)
  /\ UNCHANGED <<mode, mounted, formState, rValues, valuesDirty, debTimers, tasks, sub, thr,
                 thrTimers, winTimers, calls, budget, sinceInvoke, burst, chain, win>>

\* validateSingleField(fieldName, value) of a hook set up with NoteFields,
\* whose closure holds the values cv: the message it resolves to
NoteNames == NamesOf(NoteFields)
NoteValues == [NoteNames -> {EmptyStr, Str(<<"a">>)}]
SingleValidation(fieldName, value, cv) ==
  LET fd == Put(cv, fieldName, value)
      t == [fname |-> fieldName, fs |-> SingleFieldRuns(NoteFields, fieldName, value, fd)]
  IN [op |-> "validateSingleField", fname |-> fieldName, value |-> value, values |-> cv,
      message |-> FieldMessage(t)]

validateSingleFieldCall(fieldName, value, cv) ==
  /\ last' = SingleValidation(fieldName, value, cv)
  /\ UNCHANGED <<mode, mounted, formState, rValues, valuesDirty, debTimers, tasks, sub, thr,
                 thrTimers, winTimers, calls, budget, sinceInvoke, burst, chain, win>>

\* validateForm(values, fields) on NoteFields: the error map it resolves to
FormValidation(values) ==
  [op |-> "validateForm", values |-> values,
   errors |-> PassErrors([fs |-> FormRuns(NoteFields, values)])]

validateFormCall(values) ==
  /\ last' = FormValidation(values)
  /\ UNCHANGED <<mode, mounted, formState, rValues, valuesDirty, debTimers, tasks, sub, thr,
                 thrTimers, winTimers, calls, budget, sinceInvoke, burst, chain, win>>

InitRule == InitWith("onSubmit", InitialFormState.values, 0, 0)

NextRule ==
  \/ \E value \in RuleValues : \E rule \in RuleSet : \E formData \in FormDatas :
       validateFieldCall(value, rule, formData)
  \/ \E value \in EmptinessValues : validateFieldCall(value, Rule("required"), NoFormData)
  \/ \E f \in NoteNames \cup {"ghost"} : \E value \in RuleValues : \E cv \in NoteValues :
       validateSingleFieldCall(f, value, cv)
  \/ \E values \in NoteValues : validateFormCall(values)

SpecRule == InitRule /\ [][NextRule]_vars

(***************************************************************************)
(* SpecOrder: one call of validateForm(values, fields) on Fields, step by  *)
(* step.  fields.map starts the loop of every field, each loop suspends at *)
(* every `await validateField(...)`, and the loops resume in any order.    *)
(* `last` holds the call: at[f] is the rule field f awaits (0 once its     *)
(* loop has ended), errors the local object, order the names in the order  *)
(* their entries were written.                                             *)
(***************************************************************************)
\* a loop that records an error only while the object is still empty
WriteFirstOnly(errors, name, message) ==
  IF DOMAIN errors = {} THEN Put(errors, name, message) ELSE errors

\* errors[field.name] = message
WriteError(errors, name, message) == Put(errors, name, message)

OrderValues == [FieldNames -> DirectValues]

validateFormStart(values) ==
  /\ last.op = "validateFormRun" => last.returned
  /\ last' = [op |-> "validateFormRun", values |-> values,
              at |-> [f \in FieldNames |-> IF f \in ValidatedNames THEN 1 ELSE 0],
              errors |-> EmptyObj, order |-> <<>>, returned |-> FALSE]
  /\ UNCHANGED <<mode, mounted, formState, rValues, valuesDirty, debTimers, tasks, sub, thr,
                 thrTimers, winTimers, calls, budget, sinceInvoke, burst, chain, win>>

\* the validateField call that the loop of field f awaits has resolved
ruleResolves(f) ==
  /\ last.op = "validateFormRun"
  /\ last.at[f] > 0
  /\ LET rules == FindField(f).validators
         r == validateField(Lookup(last.values, f), rules[last.at[f]], FormData(last.values))
     IN last' =
          IF ~r.isValid
            THEN [last EXCEPT !.errors = WriteError(@, f, r.message),
                              !.order = Append(@, f),
                              !.at[f] = 0]
            ELSE [last EXCEPT !.at[f] = IF @ < Len(rules) THEN @ + 1 ELSE 0]
  /\ UNCHANGED <<mode, mounted, formState, rValues, valuesDirty, debTimers, tasks, sub, thr,
                 thrTimers, winTimers, calls, budget, sinceInvoke, burst, chain, win>>

\* Promise.all has resolved: return errors
validateFormReturns ==
  /\ last.op = "validateFormRun"
  /\ ~last.returned
  /\ \A f \in FieldNames : last.at[f] = 0
  /\ last' = [last EXCEPT !.returned = TRUE]
  /\ UNCHANGED <<mode, mounted, formState, rValues, valuesDirty, debTimers, tasks, sub, thr,
                 thrTimers, winTimers, calls, budget, sinceInvoke, burst, chain, win>>

NextOrder ==
  \/ \E values \in OrderValues : validateFormStart(values)
  \/ \E f \in FieldNames : ruleResolves(f)
  \/ validateFormReturns

SpecOrder == InitRule /\ [][NextOrder]_vars


(***************************************************************************)
(* Claims.                                                                 *)
(***************************************************************************)
InFlightOrLast == {tasks[i] : i \in DOMAIN tasks} \cup {last.task}

\* the rule loop `run` of a field: the rules started are 1..n in declaration
\* order; every rule before the n-th has passed; a suspended loop waits for
\* the n-th, asynchronous, rule; a finished loop either passed all the rules
\* or reports the message of the n-th rule, which fails
RunInOrder(run, value, rules, formData) ==
  LET n == Len(run.evaluated) IN
  /\ run.evaluated = [k \in 1..n |-> k]
  /\ \A k \in 1..(n - 1) : validateField(value, rules[k], formData).isValid
  /\ run.st = "await" => n >= 1 /\ run.idx = n /\ IsAsyncRule(rules[n])
  /\ run.st = "done" =>
       IF run.message = NoMessage
         THEN n = Len(rules) /\ (n >= 1 => validateField(value, rules[n], formData).isValid)
         ELSE /\ n >= 1
              /\ ~validateField(value, rules[n], formData).isValid
              /\ run.message = validateField(value, rules[n], formData).message

\* C1: in validateSingleField and in the per-field loop of validateForm the
\* rules are evaluated strictly in declaration order, each one awaited
\* before the next starts; the result is the message of the first failing
\* rule and no rule after it is evaluated.
C1_OrderedShortCircuit ==
  \A t \in InFlightOrLast : \A f \in DOMAIN t.fs :
    RunInOrder(t.fs[f], Lookup(t.fd, f), FindField(f).validators, FormData(t.fd))

\* a password that passes required, fails the awaited asynchronous rule and
\* would also fail minLength: the run ends at rule 2 and rule 3 never starts
C1_Witness ==
  /\ last.op = "FieldValidationDone"
  /\ last.task.fname = "password"
  /\ last.task.fd["password"] = Str(<<"a">>)
  /\ last.task.fs["password"].evaluated = <<1, 2>>
  /\ last.task.fs["password"].message = <<"Password needs a b">>
  /\ ~validateField(Str(<<"a">>), Fields[1].validators[3], FormData(last.task.fd)).isValid

\* C2: in on-change mode, three setFieldValue calls for one field within one
\* debounce window lead to exactly one single-field validation pass, which
\* uses the value of the last call, whether or not the component re-renders
\* between the calls.  (burst counts the calls made within DebounceWait of
\* the first one, and the validation passes the debounce timers started.)
C2_OneDebouncedPass ==
  burst.n = 3 =>
    /\ burst.runs <= 1
    /\ (debTimers = <<>> => burst.runs = 1 /\ burst.runValue = burst.value)

\* the outcome of validating `value` against `rules`, stated without the
\* loop: the message of the failing rule of least index, if any rule fails
FailingRules(value, rules, formData) ==
  {k \in 1..Len(rules) : ~validateField(value, rules[k], formData).isValid}
FirstFailure(value, rules, formData) ==
  LET bad == FailingRules(value, rules, formData)
      k == CHOOSE j \in bad : \A h \in bad : j <= h
  IN validateField(value, rules[k], formData).message
\* the configured fields that fail on the values fd
Failing(fd) ==
  {f \in FieldNames :
     FailingRules(Lookup(fd, f), FindField(f).validators, FormData(fd)) # {}}
Completions == {"FieldValidationDone", "ValidateAllDone", "SubmitValidationDone"}

\* C3: five submit calls within one cooldown window lead to exactly one
\* immediate attempt, for the first call, and exactly one trailing attempt,
\* started when the cooldown elapses and carrying the arguments of the fifth
\* call; no attempt starts in between.  (win counts the calls made since the
\* throttle admitted one, and lists the attempts started for them.)
C3_FiveCallsTwoAttempts ==
  win.n = 5 =>
    /\ win.open => win.started = <<win.first>>
    /\ ~win.open =>
         /\ win.started = <<win.first, win.latest>>
         /\ last.op = "ThrottleFire" => last.flag /\ last.gap = ThrottleLimit

\* the cooldown of five calls has elapsed: attempts 1 and 5 started
C3_Witness ==
  /\ win.n = 5
  /\ ~win.open
  /\ win.started = <<1, 5>>
  /\ last.op = "ThrottleFire"

\* C4: at most one invocation of the throttled function starts within any
\* window of length limit: whenever an attempt starts, at least limit has
\* passed since the previous attempt started.
C4_OneStartPerWindow ==
  (last.op \in {"handleSubmit", "ThrottleFire"} /\ last.flag) => last.gap >= ThrottleLimit

\* C5: a validation superseded by a newer validation of the same field is
\* discarded, so that errors keeps the result of the newest one: once a
\* newer validation has written its result for a field, the completion of
\* the older one does not change errors for that field to anything else.
C5_StaleResultDiscarded ==
  last.op \in Completions =>
    \A f \in DOMAIN last.task.sup \cap last.errChanged :
      ErrOf(formState.errors, f) = last.task.sup[f]

C7_InvalidAttemptNoWindow ==
  /\ (last.op = "SubmitValidationDone" /\ ~last.flag) =>
       sub.isThrottled = last.pre.isThrottled
  /\ ( /\ last.op = "handleSubmit"
       /\ last.pre.submitError = FixErrorsMessage
       /\ ~last.pre.isSubmitting
       /\ last.gap < ThrottleLimit ) => last.flag

C9_ResetRestoresDefaults ==
  last.op = "resetForm" =>
    /\ DOMAIN formState.values = FieldNames
    /\ \A f \in FieldNames :
         formState.values[f] =
           IF FindField(f).hasDefault THEN FindField(f).defaultValue ELSE EmptyStr
    /\ DOMAIN formState.errors = {}
    /\ \A f \in DOMAIN formState.touched : ~formState.touched[f]
    /\ formState.isValid
    /\ ~formState.isValidating

\* a reset of a form whose values, errors, touched flags and validity had
\* all moved away from the initial state
C9_Witness ==
  /\ last.op = "resetForm"
  /\ {"values", "errors", "touched", "isValid"} \subseteq last.changed

\* C10: no validation scheduled or started before a reset (a pending
\* debounced validation, a blur validation or a validate-all in flight)
\* changes errors, touched, isValid or isValidating after the reset.
C10_ResetCancelsInFlight ==
  (last.op \in Completions /\ last.task.preReset) =>
    last.changed \cap {"errors", "touched", "isValid", "isValidating"} = {}


\* C11: once the owning component is unmounted the pending debounce and
\* throttle timers are inert: no validation is started by a timer after
\* the unmount (so none completes, and none goes on to invoke the submit
\* callback).
C11_InertAfterUnmount ==
  /\ \A i \in DOMAIN tasks : ~tasks[i].late
  /\ ~last.task.late

\* C12: an attempt that validates successfully, trailing attempts included,
\* validates the form's values as they are when the attempt starts and
\* passes those values to the submit callback.  (Stated for the attempts
\* that start when the component has rendered the form's latest values.)
C12_AttemptUsesCurrentValues ==
  (mounted /\ last.op = "SubmitValidationDone" /\ last.invoked /\ last.task.rendered) =>
    /\ last.task.fd = last.task.sv
    /\ \E i \in DOMAIN calls : calls[i].e = last.task.e /\ calls[i].values = last.task.sv

\* C13: when the submit callback fails on a valid attempt, the catch block
\* stores the failure's description in submitError (the message of an
\* Error, the generic message for any other thrown value) and sets
\* isSubmitting to false; nothing else of the state changes.
C13_CallbackFailureCaught ==
  last.op = "SubmitRejects" =>
    /\ sub.submitError =
         IF last.error.isError THEN last.error.message ELSE GenericSubmitError
    /\ ~sub.isSubmitting
    /\ sub.isThrottled = last.pre.isThrottled
    /\ last.changed = {}

\* the callback rejected with a value that is not an Error
C13_Witness ==
  /\ last.op = "SubmitRejects"
  /\ ~last.error.isError
  /\ last.pre.isSubmitting
  /\ sub.submitError = GenericSubmitError

AttemptsInProgress ==
  {tasks[i].e : i \in {j \in DOMAIN tasks : tasks[j].owner = "submit"}}
    \cup {calls[i].e : i \in DOMAIN calls}

\* C15: isSubmitting is true in every state in which a submission attempt
\* is in progress, overlapping attempts included, and false when none is.
C15_SubmittingTracksAttempts ==
  sub.isSubmitting <=> AttemptsInProgress # {}

\* C16: a validate-all pass validates every field against one values
\* snapshot taken when the pass starts: whatever setFieldValue and
\* setFieldValues do while the pass is in flight, the outcome of each field
\* is the one its rules give on that snapshot, value and sibling values.
C16_PassReadsOneSnapshot ==
  \A t \in InFlightOrLast :
    t.kind = "all" =>
      /\ t.rendered => t.fd = t.sv
      /\ \A f \in DOMAIN t.fs :
           t.fs[f].st = "done" =>
             t.fs[f].message =
               IF f \in Failing(t.fd)
                 THEN FirstFailure(Lookup(t.fd, f), FindField(f).validators, FormData(t.fd))
                 ELSE NoMessage

\* a pass completed after a value change made while it was in flight, which
\* would have changed its outcome
C16_Witness ==
  /\ last.op = "ValidateAllDone"
  /\ last.task.rendered
  /\ ~last.task.preReset
  /\ formState.values # last.task.fd
  /\ Failing(formState.values) # Failing(last.task.fd)
  /\ DOMAIN formState.errors = Failing(last.task.fd)

C18_ErrorKeysAmongValueKeys ==
  DOMAIN formState.errors \subseteq DOMAIN formState.values

\* C19: errors has an entry for a field only if the field is failing: a
\* field whose latest validation passed has no key in errors.  (Stated for
\* the configured fields.)
C19_ErrorsOnlyForFailing ==
  \A f \in FieldNames \cap DOMAIN formState.errors : formState.errors[f] # NoMessage

\* the validate-all passes in flight, started since the form was last reset
PassesInFlight == {i \in DOMAIN tasks : tasks[i].kind = "all" /\ ~tasks[i].preReset}

\* C20: isValidating is true in every state in which a validate-all pass
\* has started and not yet finished, overlapping passes included, and false
\* otherwise.  (A pass started before a reset counts as ended by it.)
C20_ValidatingTracksPasses ==
  formState.isValidating <=> PassesInFlight # {}


\* a value the debounced updater counts as an actual value: a string with a
\* character other than blanks, or anything else but undefined and null
ActualValue(v) ==
  IF IsString(v) THEN Len(Trim(v.s)) > 0 ELSE v.k \notin {"undefined", "null"}

Outcome(f, value, fd) ==
  IF HasField(f) /\ FailingRules(value, FindField(f).validators, FormData(fd)) # {}
    THEN FirstFailure(value, FindField(f).validators, FormData(fd))
    ELSE NoMessage

C23_SetManyOnlyMerges ==
  [][ last'.op = "setFieldValues" =>
        /\ formState'.values =
             [k \in (DOMAIN formState.values) \cup (DOMAIN last'.vals) |->
                IF k \in DOMAIN last'.vals THEN last'.vals[k] ELSE formState.values[k]]
        /\ formState'.errors = formState.errors
        /\ formState'.touched = formState.touched
        /\ formState'.isValid = formState.isValid
        /\ formState'.isValidating = formState.isValidating
        /\ tasks' = tasks
        /\ debTimers' = debTimers ]_vars

\* in on-change mode, a bulk update of the confirmation alone on a form
\* that shows an error and has a touched field
C23_Witness ==
  /\ mode = "onChange"
  /\ last.op = "setFieldValues"
  /\ last.vals = PrefillOne
  /\ "values" \in last.changed
  /\ formState.values["password"] # PrefillOne["confirm"]
  /\ ~formState.isValid
  /\ \E f \in DOMAIN formState.touched : formState.touched[f]

\* C24: in on-submit mode setFieldValue and setFieldTouched never change
\* errors or isValid and never run a rule: such a call starts no validation
\* and no debounce timer, so that in this mode no single-field validation
\* is ever pending or in flight.
C24_OnSubmitModeIsQuiet ==
  /\ [](mode = "onSubmit" =>
          /\ debTimers = <<>>
          /\ \A i \in DOMAIN tasks : tasks[i].kind = "all")
  /\ [][ (mode = "onSubmit" /\ last'.op \in {"setFieldValue", "setFieldTouched"}) =>
          /\ formState'.errors = formState.errors
          /\ formState'.isValid = formState.isValid
          /\ tasks' = tasks
          /\ debTimers' = debTimers ]_vars

\* in on-submit mode the password has been emptied and then blurred: it is
\* touched, and the form still shows no error and counts as valid
C24_Witness ==
  /\ mode = "onSubmit"
  /\ last.op = "setFieldTouched"
  /\ last.name = "password"
  /\ formState.values["password"] = EmptyStr
  /\ rValues = formState.values
  /\ formState.touched["password"]
  /\ formState.errors = <<>>
  /\ formState.isValid
  /\ tasks = <<>>

\* a and b have the same type and the same content
SameTypeAndContent(a, b) == a.k = b.k /\ a.s = b.s /\ a.n = b.n

\* C25: validating the confirmation, whose rule is match(password), gives
\* the empty message (and no entry in validateForm's error map) if and only
\* if the confirmation validated and the password it is validated against
\* have the same type and the same characters, case included.
C25_MatchIffStrictlyEqual ==
  \A t \in InFlightOrLast :
    ("confirm" \in DOMAIN t.fs /\ t.fs["confirm"].st = "done") =>
      LET same == SameTypeAndContent(Lookup(t.fd, "confirm"), Lookup(t.fd, "password")) IN
      /\ t.fs["confirm"].message = NoMessage <=> same
      /\ t.kind = "field" => (FieldMessage(t) = NoMessage <=> same)
      /\ t.kind = "all" => ("confirm" \notin DOMAIN PassErrors(t) <=> same)

\* the confirmation is the number 1 and the password the string '1': the
\* confirmation does not match
C25_Witness ==
  /\ last.op = "FieldValidationDone"
  /\ last.task.fname = "confirm"
  /\ last.task.fd["confirm"] = Num(1)
  /\ last.task.fd["password"] = Str(<<"1">>)
  /\ FieldMessage(last.task) = <<"This field must match ", "password">>

\* C26: a match rule is invalid whenever the referenced field cannot be
\* found, for every value, undefined included: when matchField is not a key
\* of the sibling values, and when no sibling values are passed at all.
C26_MatchFailsWithoutSibling ==
  ( /\ last.op = "validateField"
    /\ last.rule.type = "match"
    /\ last.rule.matchField # ""
    /\ \/ ~last.formData.has
       \/ last.rule.matchField \notin DOMAIN last.formData.data ) =>
    ~last.result.isValid

\* C30: a rule whose kind is not one of the ten built-in kinds is valid for
\* every value and every sibling values, with an empty message, so that it
\* never produces an error entry.
C30_UnknownKindPasses ==
  (last.op = "validateField" /\ last.rule.type \notin ValidatorTypes) =>
    /\ last.result.isValid
    /\ last.result.message = NoMessage

\* the pending timers of the current debounce instance
CurrentTimers == SelectSeq(debTimers, LAMBDA t : t.cur)

\* C28: on one debounce instance, a chain of calls each arriving before the
\* wait has elapsed since the previous one leads to exactly one invocation
\* of the wrapped function: while the chain is pending there is a single
\* timer, holding the arguments of the latest call and due when the wait
\* has elapsed since that call; the invocation happens then, with those
\* arguments, and nothing of the chain is left afterwards.
C28_DebounceCoalesces ==
  chain.n > 0 =>
    /\ chain.runs <= 1
    /\ chain.runs = 0 =>
         /\ Len(CurrentTimers) = 1
         /\ CurrentTimers[1].fname = chain.fname
         /\ CurrentTimers[1].fvalue = chain.value
         /\ CurrentTimers[1].left = DebounceWait - chain.idle
    /\ chain.runs = 1 =>
         /\ CurrentTimers = <<>>
         /\ chain.runArgs = <<chain.fname, chain.value>>
         /\ chain.runIdle = DebounceWait

\* three calls in a row, the first for the password and the last for the
\* confirmation, have led to one invocation, for the confirmation
C28_Witness ==
  /\ chain.n = 3
  /\ chain.runs = 1
  /\ chain.runArgs = <<"confirm", Str(<<"a", "b">>)>>
  /\ formState.values["password"] = EmptyStr
  /\ debTimers = <<>>

\* the fields of NoteFields with an empty rule list or with no rule list
RuleLess ==
  {NoteFields[i].name :
     i \in {j \in DOMAIN NoteFields :
              ~NoteFields[j].hasValidators \/ NoteFields[j].validators = <<>>}}

\* C29: for a field with an empty rule list or with no rule list,
\* validateSingleField resolves to the empty message for every value, and
\* the error map of validateForm has no entry for the field.
C29_NoRulesNoError ==
  /\ (last.op = "validateSingleField" /\ last.fname \in RuleLess) => last.message = NoMessage
  /\ last.op = "validateForm" => DOMAIN last.errors \cap RuleLess = {}

\* validateForm on a form whose three fields are empty: the required title
\* is the only entry of the error map
C29_Witness ==
  /\ last.op = "validateForm"
  /\ \A f \in NoteNames : last.values[f] = EmptyStr
  /\ RuleLess = {"note", "memo"}
  /\ DOMAIN last.errors = {"title"}

\* C27: when a custom predicate throws or rejects during a debounced
\* on-change validation, a blur validation or a validate-all, the rejection
\* is caught by the library and shows in the form's state (an error for the
\* field or a submission error); it never escapes as an unhandled rejection
\* or as the rejection of a promise handed to the caller.
C27_ValidationFailureCaught ==
  last.op = "PredicateRejects" =>
    /\ last.fate = "caught"
    /\ \/ ErrOf(formState.errors, last.name) # NoMessage
       \/ sub.submitError # NoMessage

\* C31: a minLength rule with bound n fails every string shorter than n,
\* with the default message in which n stands in the place of the {value}
\* placeholder; it passes every string of at least n characters, for which
\* a field with this rule resolves to the empty message; and it fails every
\* value that is not a string.
C31_MinLength ==
  (last.op = "validateField" /\ last.rule.type = "minLength" /\ last.rule.hasValue) =>
    LET n == last.rule.value
        v == last.value
    IN /\ (IsString(v) /\ Len(v.s) >= n) =>
            /\ last.result.isValid
            /\ RunFrom(v, <<last.rule>>, last.formData, 1, <<>>).message = NoMessage
       /\ (IsString(v) /\ Len(v.s) < n) =>
            /\ ~last.result.isValid
            /\ last.result.message =
                 <<"This field must be at least ", NumToStr(n), " characters">>
            /\ RunFrom(v, <<last.rule>>, last.formData, 1, <<>>).message = last.result.message
       /\ ~IsString(v) => ~last.result.isValid

\* minLength(8) on 'short': the message names the bound 8
C31_Witness ==
  /\ last.op = "validateField"
  /\ last.rule = RuleV("minLength", 8)
  /\ last.value = Short
  /\ ~last.result.isValid
  /\ last.result.message = <<"This field must be at least ", "8", " characters">>

\* C32: the required rule is invalid if and only if the value is null,
\* undefined, a string of white space only (the empty string included) or
\* an empty sequence; every other value, false and 0 included, passes.
C32_Required ==
  (last.op = "validateField" /\ last.rule.type = "required") =>
    LET v == last.value IN
    ~last.result.isValid <=>
      \/ v.k \in {"null", "undefined"}
      \/ v.k = "string" /\ \A i \in DOMAIN v.s : v.s[i] \in Whitespace
      \/ v.k = "array" /\ v.s = <<>>

\* a string of a blank, a tab and a line feed is rejected
C32_Witness ==
  /\ last.op = "validateField"
  /\ last.rule.type = "required"
  /\ last.value = Str(<<" ", "\t", "\n">>)
  /\ ~last.result.isValid
  /\ last.result.message = <<"This field is required">>

\* C33: in DynamicForm, when the submit callback fails on a form whose
\* fields are all valid, submitError holds the failure's description and
\* stays set until the next submission attempt starts: a step that clears
\* a failure's description is the start of an attempt.
AttemptStarts == last'.op \in {"handleSubmit", "ThrottleFire"} /\ last'.flag
FailureShown ==
  /\ ~hasErrors
  /\ sub.submitError \in {RejectionMessage(r) : r \in Rejections}
C33_FailureStaysShown ==
  [][(FailureShown /\ sub'.submitError = NoMessage) => AttemptStarts]_vars

\* C34: the submit callback is never invoked while a previous invocation
\* of it is unresolved: at most one submission is in flight at any time.
C34_OneSubmissionInFlight == Len(calls) <= 1

\* C35: every call of handleSubmit that is given an event has called
\* preventDefault on that event when handleSubmit returns, the calls that
\* the throttle defers or overwrites included.
\* the body's first statement is e.preventDefault(): it has been called on
\* event e when the body has run with e
preventDefaultCalled(e) == \E i \in DOMAIN win.started : win.started[i] = e
C35_DefaultPrevented ==
  last.op = "handleSubmit" => preventDefaultCalled(budget.subs)

\* C36: if a custom predicate throws or rejects during a validate-all pass,
\* isValidating returns to false once the pass has ended: when the
\* rejection has ended the pass and no other pass is in flight,
\* isValidating is false.
C36_ValidatingEndsAfterFailure ==
  (last.op = "PredicateRejects" /\ last.task.kind = "all" /\ PassesInFlight = {}) =>
    ~formState.isValidating

\* no debounce timer is pending, no validation is in flight and the
\* component has rendered the latest values
Settled == debTimers = <<>> /\ tasks = <<>> /\ ~valuesDirty

\* C37: in on-change mode, with confirm's match rule on password and
\* confirm validated after a change: after any sequence of setFieldValue
\* calls on the two fields, once all timers and validations have settled,
\* errors.confirm is empty if and only if values.confirm === values.password.
C37_MatchSettlesConsistent ==
  (Settled /\ "confirm" \in DOMAIN formState.errors) =>
    (formState.errors["confirm"] = NoMessage
       <=> StrictEquals(formState.values["confirm"], formState.values["password"]))

\* the fields whose value setFieldValue has changed from the initial one
ChangedFields ==
  {f \in FieldNames : formState.values[f] # InitialFormState.values[f]}

\* C38: in on-change mode every field changed by setFieldValue is validated
\* and the result merged into errors once input stops, a change to a second
\* field within the debounce window notwithstanding: once all timers and
\* validations have settled, errors holds a result for every changed field.
C38_EveryChangeValidated ==
  Settled => \A f \in ChangedFields : f \in DOMAIN formState.errors

\* C39: for fixed values and fields with unique names, the error map
\* validateForm returns is the same for every completion order of the
\* per-field validations: it is the map of each failing field to the
\* message of its first failing rule, which no order enters into.
C39_OrderIndependent ==
  (last.op = "validateFormRun" /\ last.returned) =>
    last.errors = [f \in Failing(last.values) |-> Outcome(f, Lookup(last.values, f), last.values)]

\* a call that recorded confirm's error before password's
C39_Witness ==
  /\ last.op = "validateFormRun"
  /\ last.returned
  /\ last.order = <<"confirm", "password">>
  /\ DOMAIN last.errors = {"password", "confirm"}

=============================================================================
